---- MODULE Spec2Model ----
(***************************************************************************)
(* The admin "edit post" route of the blog: its action (delete / validate  *)
(* and update), its loader, and the submit controls of its view, in the    *)
(* two variants of the route file:                                         *)
(*   src/app/routes/posts/admin/$slug.tsx   (requires a session)           *)
(*   src/unnamed/part_000                   (no session check)             *)
(* Definitions of the second file carry the suffix 0.                      *)
(***************************************************************************)
EXTENDS Naturals, Sequences, FiniteSets, TLC

VARIABLES
    posts,           \* the post store behind getPost/updatePost/deletePost
    phase,           \* server: "idle" | "responded"
    request,         \* server: the request being answered
    before,          \* server: the store as it was when the request arrived
    removed,         \* server: the slugs the last action took out of the store
    calls,           \* server: the persistence calls the request made, in order
    response,        \* server: what the handler returned or threw
    viewVariant,     \* view: which route file renders the page
    page,            \* view: "edit" | "admin" | "error" | "none"
    post,            \* view: useLoaderData().post
    showDeleteModal, \* view: useState(false)
    activeButton,    \* view: useState<string>()
    submission,      \* view: transition.submission (id of the one in flight, 0: none)
    actionData,      \* view: useActionData()
    network,         \* view: submissions sent and not yet answered
    started          \* view: log of the submissions started so far

serverVars == <<phase, request, before, removed, calls, response>>
viewVars == <<viewVariant, page, post, showDeleteModal, activeButton,
              submission, actionData, network, started>>
vars == <<posts, phase, request, before, removed, calls, response, viewVariant,
          page,
          post, showDeleteModal, activeButton, submission, actionData,
          network, started>>

---------------------------------------------------------------------------
(* Bounds *)

NumSlugs == 2
NumTexts == 1
MaxSubmissions == 2

SlugPool == <<"my-post", "x", "other-post", "z">>
TextPool == <<"y", "Hello", "w">>
Slugs == {SlugPool[i] : i \in 1..NumSlugs}
Texts == {TextPool[i] : i \in 1..NumTexts}

---------------------------------------------------------------------------
(* Values of form fields: what formData.get(name) can return. *)

Null == [type |-> "null", value |-> ""]
File == [type |-> "File", value |-> ""]
Str(s) == [type |-> "string", value |-> s]

\* JavaScript truthiness of a FormDataEntryValue | null
Truthy(v) == v.type = "File" \/ (v.type = "string" /\ v.value # "")

SlugValues == {Null, File, Str("")} \cup {Str(s) : s \in Slugs}
TextValues == {Null, File, Str("")} \cup {Str(t) : t \in Texts}
ActionValues == {Null, Str("delete"), Str("publish")}

Forms == [_action : ActionValues, initialSlug : SlugValues, title : TextValues,
          slug : SlugValues, markdown : TextValues]

EmptyForm == [_action |-> Null, initialSlug |-> Null, title |-> Null,
              slug |-> Null, markdown |-> Null]

---------------------------------------------------------------------------
(* The post store.  A post is [slug, title, markdown]; slugs are unique. *)

NoPost == [slug |-> "", title |-> "", markdown |-> ""]
PostRecords == [slug : Slugs, title : Texts, markdown : Texts]

HasPost(store, slug) == \E p \in store : p.slug = slug
SlugsOf(store) == {p.slug : p \in store}

getPost(store, slug) ==
    IF HasPost(store, slug) THEN CHOOSE p \in store : p.slug = slug ELSE NoPost

\* deletePost(slug): the post keyed by the value passed leaves the store.
deletePost(store, slug) ==
    {p \in store : ~(slug.type = "string" /\ p.slug = slug.value)}

\* updatePost(initialSlug, {title, slug, markdown}): the post keyed by
\* initialSlug takes the new fields (a changed slug renames it).  The layer
\* keeps slugs unique: a rename onto another post's slug changes nothing.
updatePost(store, initialSlug, data) ==
    IF ~HasPost(store, initialSlug) THEN store
    ELSE IF data.slug # initialSlug /\ HasPost(store, data.slug) THEN store
    ELSE {p \in store : p.slug # initialSlug}
            \cup {[slug |-> data.slug, title |-> data.title,
                   markdown |-> data.markdown]}

\* requireUserId(request): the user of the session, or the request ends.
NoUser == "no-user"
requireUserId(req) == IF req.session THEN "user" ELSE NoUser

---------------------------------------------------------------------------
(* Responses and persistence calls *)

NoErrors == [title |-> Null, slug |-> Null, markdown |-> Null]

Redirect(to) ==
    [kind |-> "redirect", to |-> to, errors |-> NoErrors, post |-> NoPost,
     message |-> ""]
Json(errs) ==
    [kind |-> "json", to |-> "", errors |-> errs, post |-> NoPost,
     message |-> ""]
JsonPost(p) ==
    [kind |-> "json-post", to |-> "", errors |-> NoErrors, post |-> p,
     message |-> ""]
Thrown(msg) ==
    [kind |-> "throw", to |-> "", errors |-> NoErrors, post |-> NoPost,
     message |-> msg]
NoResponse ==
    [kind |-> "none", to |-> "", errors |-> NoErrors, post |-> NoPost,
     message |-> ""]

DeleteCall(slug) ==
    [op |-> "deletePost", key |-> slug, title |-> Null, slug |-> Null,
     markdown |-> Null]
UpdateCall(initialSlug, title, slug, markdown) ==
    [op |-> "updatePost", key |-> initialSlug, title |-> title, slug |-> slug,
     markdown |-> markdown]

Outcome(cs, resp, store) == [calls |-> cs, response |-> resp, posts |-> store]

---------------------------------------------------------------------------
(* action, src/app/routes/posts/admin/$slug.tsx *)

\* A copy-paste slip: the slug message is decided by the title field.
errorsCopyPaste(formData) ==
    [title |-> IF Truthy(formData.title) THEN Null
               ELSE Str("Title is required"),
     slug |-> IF Truthy(formData.title) THEN Null
              ELSE Str("Slug is required"),
     markdown |-> IF Truthy(formData.markdown) THEN Null
                  ELSE Str("Markdown is required")]

\* const errors: ActionData = {...}
errors(formData) ==
    [title |-> IF Truthy(formData.title) THEN Null
               ELSE Str("Title is required"),
     slug |-> IF Truthy(formData.slug) THEN Null
              ELSE Str("Slug is required"),
     markdown |-> IF Truthy(formData.markdown) THEN Null
                  ELSE Str("Markdown is required")]

\* Object.values(errors).some((errorMessage) => errorMessage)
hasErrors(errs) == \E k \in DOMAIN errs : Truthy(errs[k])

\* The delete keyed by the hidden initialSlug field instead of slug.
actionDeleteByInitialSlug(formData, store) ==
    Outcome(<<DeleteCall(formData.initialSlug)>>, Redirect("/posts/admin"),
            deletePost(store, formData.initialSlug))

\* if (_action === "delete") { ... }
actionDelete(formData, store) ==
    LET slug == formData.slug
    IN  Outcome(<<DeleteCall(slug)>>, Redirect("/posts/admin"),
                deletePost(store, slug))

\* The update keyed by the new slug instead of initialSlug.
actionUpdateKeyedBySlug(formData, store) ==
    LET initialSlug == formData.initialSlug
        title == formData.title
        slug == formData.slug
        markdown == formData.markdown
    IN  IF hasErrors(errors(formData)) THEN
            Outcome(<<>>, Json(errors(formData)), store)
        ELSE IF initialSlug.type # "string" THEN
            Outcome(<<>>, Thrown("initial slug must be a string"), store)
        ELSE IF title.type # "string" THEN
            Outcome(<<>>, Thrown("title must be a string"), store)
        ELSE IF slug.type # "string" THEN
            Outcome(<<>>, Thrown("slug must be a string"), store)
        ELSE IF markdown.type # "string" THEN
            Outcome(<<>>, Thrown("markdown must be a string"), store)
        ELSE
            Outcome(<<UpdateCall(slug, title, slug, markdown)>>,
                    Redirect("/posts/admin"),
                    updatePost(store, slug.value,
                               [title |-> title.value, slug |-> slug.value,
                                markdown |-> markdown.value]))

\* A rename done as a delete of the old slug followed by the update.
actionUpdateDeletesOnRename(formData, store) ==
    LET initialSlug == formData.initialSlug
        title == formData.title
        slug == formData.slug
        markdown == formData.markdown
    IN  IF hasErrors(errors(formData)) THEN
            Outcome(<<>>, Json(errors(formData)), store)
        ELSE IF initialSlug.type # "string" THEN
            Outcome(<<>>, Thrown("initial slug must be a string"), store)
        ELSE IF title.type # "string" THEN
            Outcome(<<>>, Thrown("title must be a string"), store)
        ELSE IF slug.type # "string" THEN
            Outcome(<<>>, Thrown("slug must be a string"), store)
        ELSE IF markdown.type # "string" THEN
            Outcome(<<>>, Thrown("markdown must be a string"), store)
        ELSE
            Outcome((IF slug # initialSlug THEN <<DeleteCall(initialSlug)>>
                     ELSE <<>>)
                        \o <<UpdateCall(initialSlug, title, slug, markdown)>>,
                    Redirect("/posts/admin"),
                    updatePost(store, initialSlug.value,
                               [title |-> title.value, slug |-> slug.value,
                                markdown |-> markdown.value]))

\* The rest of action: validate, assert the types, update, redirect.
actionUpdate(formData, store) ==
    LET initialSlug == formData.initialSlug
        title == formData.title
        slug == formData.slug
        markdown == formData.markdown
    IN  IF hasErrors(errors(formData)) THEN
            Outcome(<<>>, Json(errors(formData)), store)
        ELSE IF initialSlug.type # "string" THEN
            Outcome(<<>>, Thrown("initial slug must be a string"), store)
        ELSE IF title.type # "string" THEN
            Outcome(<<>>, Thrown("title must be a string"), store)
        ELSE IF slug.type # "string" THEN
            Outcome(<<>>, Thrown("slug must be a string"), store)
        ELSE IF markdown.type # "string" THEN
            Outcome(<<>>, Thrown("markdown must be a string"), store)
        ELSE
            Outcome(<<UpdateCall(initialSlug, title, slug, markdown)>>,
                    Redirect("/posts/admin"),
                    updatePost(store, initialSlug.value,
                               [title |-> title.value, slug |-> slug.value,
                                markdown |-> markdown.value]))

\* The session is looked at only on the update path, after the delete branch.
actionChecksSessionLate(req, store) ==
    LET formData == req.form
    IN  IF formData._action = Str("delete") THEN actionDelete(formData, store)
        ELSE IF requireUserId(req) = NoUser THEN
            Outcome(<<>>, Thrown("requireUserId"), store)
        ELSE actionUpdate(formData, store)

action(req, store) ==
    IF requireUserId(req) = NoUser THEN
        Outcome(<<>>, Thrown("requireUserId"), store)
    ELSE
        LET formData == req.form
        IN  IF formData._action = Str("delete") THEN
                actionDelete(formData, store)
            ELSE actionUpdate(formData, store)

\* The post is returned without the not-found assertion.
loaderNoCheck(params, store) ==
    IF ~Truthy(params.slug) THEN Thrown("params.slug is required")
    ELSE JsonPost(getPost(store, params.slug.value))

loader(params, store) ==
    IF ~Truthy(params.slug) THEN Thrown("params.slug is required")
    ELSE LET found == getPost(store, params.slug.value)
         IN  IF found = NoPost THEN
                 Thrown("Post not found: " \o params.slug.value)
             ELSE JsonPost(found)

---------------------------------------------------------------------------
(* action, src/unnamed/part_000 *)

errors0(formData) ==
    [title |-> IF Truthy(formData.title) THEN Null
               ELSE Str("Title is required"),
     slug |-> IF Truthy(formData.slug) THEN Null
              ELSE Str("Slug is required"),
     markdown |-> IF Truthy(formData.markdown) THEN Null
                  ELSE Str("Markdown is required")]

\* every() written for some(): errors are reported only when all are set.
hasErrorsEvery0(errs) == \A k \in DOMAIN errs : Truthy(errs[k])

hasErrors0(errs) == \E k \in DOMAIN errs : Truthy(errs[k])

actionDelete0(formData, store) ==
    LET slug == formData.slug
    IN  Outcome(<<DeleteCall(slug)>>, Redirect("/posts/admin"),
                deletePost(store, slug))

actionUpdate0(formData, store) ==
    LET initialSlug == formData.initialSlug
        title == formData.title
        slug == formData.slug
        markdown == formData.markdown
    IN  IF hasErrors0(errors0(formData)) THEN
            Outcome(<<>>, Json(errors0(formData)), store)
        ELSE IF initialSlug.type # "string" THEN
            Outcome(<<>>, Thrown("initial slug must be a string"), store)
        ELSE IF title.type # "string" THEN
            Outcome(<<>>, Thrown("title must be a string"), store)
        ELSE IF slug.type # "string" THEN
            Outcome(<<>>, Thrown("slug must be a string"), store)
        ELSE IF markdown.type # "string" THEN
            Outcome(<<>>, Thrown("markdown must be a string"), store)
        ELSE
            Outcome(<<UpdateCall(initialSlug, title, slug, markdown)>>,
                    Redirect("/posts/admin"),
                    updatePost(store, initialSlug.value,
                               [title |-> title.value, slug |-> slug.value,
                                markdown |-> markdown.value]))

action0(req, store) ==
    LET formData == req.form
    IN  IF formData._action = Str("delete") THEN actionDelete0(formData, store)
        ELSE actionUpdate0(formData, store)

loader0(params, store) ==
    IF ~Truthy(params.slug) THEN Thrown("params.slug is required")
    ELSE LET found == getPost(store, params.slug.value)
         IN  IF found = NoPost THEN
                 Thrown("Post not found: " \o params.slug.value)
             ELSE JsonPost(found)

---------------------------------------------------------------------------
(* The server: one request at a time, answered by the handler of its route *)

NoParams == [slug |-> Null]
Params == [slug : {Null, Str("")} \cup {Str(s) : s \in Slugs}]

NoRequest ==
    [handler |-> "none", variant |-> "none", session |-> FALSE,
     form |-> EmptyForm, params |-> NoParams]
ActionRequest(variant, session, form) ==
    [handler |-> "action", variant |-> variant, session |-> session,
     form |-> form, params |-> NoParams]
LoaderRequest(variant, session, params) ==
    [handler |-> "loader", variant |-> variant, session |-> session,
     form |-> EmptyForm, params |-> params]

UniqueSlugs(store) == \A p, q \in store : p.slug = q.slug => p = q
Stores == {store \in SUBSET PostRecords : UniqueSlugs(store)}

ServerInit ==
    /\ posts \in Stores
    /\ phase = "idle"
    /\ request = NoRequest
    /\ before = posts
    /\ removed = {}
    /\ calls = <<>>
    /\ response = NoResponse

ViewIdle ==
    /\ viewVariant = "none"
    /\ page = "none"
    /\ post = NoPost
    /\ showDeleteModal = FALSE
    /\ activeButton = ""
    /\ submission = 0
    /\ actionData = NoErrors
    /\ network = {}
    /\ started = <<>>

Init == ServerInit /\ ViewIdle

Answer(req, out) ==
    /\ phase' = "responded"
    /\ request' = req
    /\ before' = posts
    /\ removed' = IF req.handler = "action"
                  THEN SlugsOf(posts) \ SlugsOf(out.posts)
                  ELSE removed
    /\ calls' = out.calls
    /\ response' = out.response
    /\ posts' = out.posts
    /\ UNCHANGED viewVars

\* POST /posts/admin/:slug, route file $slug.tsx
PostAction ==
    /\ phase = "idle"
    /\ \E session \in BOOLEAN, form \in Forms :
          LET req == ActionRequest("authed", session, form)
          IN  Answer(req, action(req, posts))

\* POST /posts/admin/:slug, route file part_000
PostAction0 ==
    /\ phase = "idle"
    /\ \E session \in BOOLEAN, form \in Forms :
          LET req == ActionRequest("plain", session, form)
          IN  Answer(req, action0(req, posts))

\* GET /posts/admin/:slug, route file $slug.tsx
GetLoader ==
    /\ phase = "idle"
    /\ \E params \in Params :
          LET req == LoaderRequest("authed", TRUE, params)
          IN  Answer(req, Outcome(<<>>, loader(params, posts), posts))

\* GET /posts/admin/:slug, route file part_000
GetLoader0 ==
    /\ phase = "idle"
    /\ \E params \in Params :
          LET req == LoaderRequest("plain", TRUE, params)
          IN  Answer(req, Outcome(<<>>, loader0(params, posts), posts))

\* The response has been sent; the server waits for the next request.
Complete ==
    /\ phase = "responded"
    /\ phase' = "idle"
    /\ request' = NoRequest
    /\ before' = posts
    /\ calls' = <<>>
    /\ response' = NoResponse
    /\ UNCHANGED <<posts, removed>>
    /\ UNCHANGED viewVars

Next == PostAction \/ PostAction0 \/ GetLoader \/ GetLoader0 \/ Complete

Spec == Init /\ [][Next]_vars

---------------------------------------------------------------------------
(* The view EditPostSlug: the submit controls, the confirmation dialog and  *)
(* the submission in flight.  The page is open on a post the loader found;  *)
(* a submission travels to the action of the same route file.               *)

\* Boolean(transition.submission)
isSubmitting == submission # 0
isUpdating == isSubmitting /\ activeButton = "update"
isDeleting == isSubmitting /\ activeButton = "delete"
\* part_000: const isUpdating = Boolean(transition.submission)
isUpdating0 == submission # 0

\* disabled={...} of the two submit buttons; part_000's delete button has none.
updateDisabled == isSubmitting
\* The delete button left without its disabled attribute.
deleteNeverDisabled == FALSE
deleteDisabled == isSubmitting
updateDisabled0 == isUpdating0
deleteDisabled0 == FALSE

\* What the inputs can hold when the form is submitted: the loaded post's
\* text (defaultValue) or nothing; the slug input also another slug (a rename).
TitleInputs == {Str(""), Str(post.title)}
MarkdownInputs == {Str(""), Str(post.markdown)}
SlugInputs == {Str("")} \cup {Str(s) : s \in Slugs}
\* The cookie of the request: part_000 never reads it.
Sessions == IF viewVariant = "authed" THEN BOOLEAN ELSE {TRUE}

\* <Form method="post"> submits its fields with the clicked button's
\* name/value; the submission becomes transition.submission.
SubmitForm(button) ==
    /\ Len(started) < MaxSubmissions
    /\ \E title \in TitleInputs, slug \in SlugInputs,
          markdown \in MarkdownInputs, session \in Sessions :
          LET id == Len(started) + 1
              form == [_action |-> button, initialSlug |-> Str(post.slug),
                       title |-> title, slug |-> slug, markdown |-> markdown]
          IN  /\ submission' = id
              /\ network' = network \cup
                    {[id |-> id, req |-> ActionRequest(viewVariant, session, form)]}
              /\ started' = Append(started,
                    [id |-> id, _action |-> button, modal |-> showDeleteModal,
                     inFlight |-> submission])

NoSubmit == UNCHANGED <<submission, network, started>>

\* The delete button's handler without the dialog gate.
onClickDeleteNoGate ==
    /\ activeButton' = "delete"
    /\ SubmitForm(Str("delete"))
    /\ UNCHANGED showDeleteModal

\* onClick of the delete button, $slug.tsx
onClickDelete ==
    IF showDeleteModal THEN
        /\ activeButton' = "delete"
        /\ SubmitForm(Str("delete"))
        /\ UNCHANGED showDeleteModal
    ELSE
        \* event.preventDefault()
        /\ showDeleteModal' = TRUE
        /\ NoSubmit
        /\ UNCHANGED activeButton

\* The user clicks "Update Post", $slug.tsx
ClickUpdate ==
    /\ viewVariant = "authed"
    /\ page = "edit"
    /\ ~updateDisabled
    /\ activeButton' = "update"
    /\ SubmitForm(Null)
    /\ UNCHANGED <<posts, serverVars, viewVariant, page, post, showDeleteModal,
                   actionData>>

\* The user clicks "Delete Post", $slug.tsx
ClickDelete ==
    /\ viewVariant = "authed"
    /\ page = "edit"
    /\ ~deleteDisabled
    /\ onClickDelete
    /\ UNCHANGED <<posts, serverVars, viewVariant, page, post, actionData>>

\* onConfirm of the dialog: deletePostButton.click(), which a disabled
\* button ignores.
onConfirm ==
    /\ viewVariant = "authed"
    /\ page = "edit"
    /\ showDeleteModal
    /\ IF deleteDisabled
       THEN NoSubmit /\ UNCHANGED <<activeButton, showDeleteModal>>
       ELSE onClickDelete
    /\ UNCHANGED <<posts, serverVars, viewVariant, page, post, actionData>>

\* onClose of the dialog
onClose ==
    /\ viewVariant = "authed"
    /\ page = "edit"
    /\ showDeleteModal
    /\ showDeleteModal' = FALSE
    /\ NoSubmit
    /\ UNCHANGED <<posts, serverVars, viewVariant, page, post, activeButton,
                   actionData>>

\* The user clicks "Update Post", part_000
ClickUpdate0 ==
    /\ viewVariant = "plain"
    /\ page = "edit"
    /\ ~updateDisabled0
    /\ SubmitForm(Null)
    /\ UNCHANGED <<posts, serverVars, viewVariant, page, post, showDeleteModal,
                   activeButton, actionData>>

\* The user clicks "Delete Post", part_000
ClickDelete0 ==
    /\ viewVariant = "plain"
    /\ page = "edit"
    /\ ~deleteDisabled0
    /\ SubmitForm(Str("delete"))
    /\ UNCHANGED <<posts, serverVars, viewVariant, page, post, showDeleteModal,
                   activeButton, actionData>>

\* The page is left: for the admin listing after a redirect, for the error
\* page after a throw.
Leave(to) ==
    /\ page' = to
    /\ post' = NoPost
    /\ showDeleteModal' = FALSE
    /\ activeButton' = ""
    /\ submission' = 0
    /\ actionData' = NoErrors

\* The action's answer to the submission in flight reaches the page.
Receive(resp, store) ==
    IF resp.kind = "redirect" THEN Leave("admin")
    ELSE IF resp.kind = "throw" THEN Leave("error")
    ELSE
        \* the errors are rendered and the loader runs again
        LET again == IF viewVariant = "authed"
                     THEN loader([slug |-> Str(post.slug)], store)
                     ELSE loader0([slug |-> Str(post.slug)], store)
        IN  IF again.kind = "throw" THEN Leave("error")
            ELSE /\ actionData' = resp.errors
                 /\ post' = again.post
                 /\ submission' = 0
                 \* useEffect: if (!transition.submission) setActiveButton("")
                 /\ activeButton' = ""
                 /\ UNCHANGED <<page, showDeleteModal>>

\* The server runs the action on a submission it was sent.
ServerResponds ==
    \E m \in network :
        LET out == IF m.req.variant = "authed" THEN action(m.req, posts)
                   ELSE action0(m.req, posts)
        IN  /\ posts' = out.posts
            /\ network' = network \ {m}
            /\ IF m.id = submission THEN Receive(out.response, out.posts)
               ELSE UNCHANGED <<page, post, showDeleteModal, activeButton,
                                submission, actionData>>
            /\ UNCHANGED <<serverVars, viewVariant, started>>

\* A submission replaced by a newer one is aborted before it is served.
DropAborted ==
    \E m \in network :
        /\ m.id # submission
        /\ network' = network \ {m}
        /\ UNCHANGED <<posts, serverVars, viewVariant, page, post,
                       showDeleteModal, activeButton, submission, actionData,
                       started>>

\* The store the page is opened on: a post for every slug but the last,
\* which is free for a rename.
InitialPosts ==
    {[slug |-> SlugPool[i], title |-> TextPool[1], markdown |-> TextPool[1]] :
        i \in 1..(NumSlugs - 1)}

ViewInit ==
    /\ ServerInit
    /\ posts = InitialPosts
    /\ viewVariant \in {"authed", "plain"}
    /\ page = "edit"
    /\ \E s \in Slugs :
          LET loaded == IF viewVariant = "authed"
                        THEN loader([slug |-> Str(s)], posts)
                        ELSE loader0([slug |-> Str(s)], posts)
          IN  loaded.kind = "json-post" /\ post = loaded.post
    /\ showDeleteModal = FALSE
    /\ activeButton = ""
    /\ submission = 0
    /\ actionData = NoErrors
    /\ network = {}
    /\ started = <<>>

ViewNext ==
    \/ ClickUpdate \/ ClickDelete \/ onConfirm \/ onClose
    \/ ClickUpdate0 \/ ClickDelete0
    \/ ServerResponds \/ DropAborted

ViewSpec == ViewInit /\ [][ViewNext]_vars

---------------------------------------------------------------------------
(* Properties of the action and the loader *)

\* The action has answered a request.
Handled == phase = "responded" /\ request.handler = "action"

\* The action has read the form: the request is a submission.  In $slug.tsx
\* the form is read after requireUserId has returned (see C5).
Submitted == Handled /\ (request.variant = "authed" => request.session)

DeleteSubmission == Submitted /\ request.form._action = Str("delete")
UpdateSubmission == Submitted /\ request.form._action # Str("delete")

\* A field that is empty or absent.
Missing(v) == v = Null \/ v = Str("")
\* A field that holds a non-empty string.
NonEmptyString(v) == v.type = "string" /\ v.value # ""

ExpectedMessage(v, msg) == IF Missing(v) THEN Str(msg) ELSE Null

\* C1: an update submission with an empty or absent title, slug or markdown
\* makes no persistence call, returns no redirect, and returns the errors
\* object with the field's message exactly for each empty or absent field
\* and null for each field that is present.
C1_ValidationFailure ==
    (UpdateSubmission
        /\ (Missing(request.form.title) \/ Missing(request.form.slug)
                \/ Missing(request.form.markdown)))
    => /\ calls = <<>>
       /\ posts = before
       /\ response.kind = "json"
       /\ response.errors =
            [title |-> ExpectedMessage(request.form.title, "Title is required"),
             slug |-> ExpectedMessage(request.form.slug, "Slug is required"),
             markdown |-> ExpectedMessage(request.form.markdown,
                                          "Markdown is required")]

\* The scenario {title: "", slug: "x", markdown: "y"}.
C1_Witness ==
    /\ UpdateSubmission
    /\ request.form.title = Str("")
    /\ request.form.slug = Str("x")
    /\ request.form.markdown = Str("y")
    /\ calls = <<>>
    /\ response = Json([title |-> Str("Title is required"), slug |-> Null,
                        markdown |-> Null])

AllThreePresent ==
    /\ NonEmptyString(request.form.title)
    /\ NonEmptyString(request.form.slug)
    /\ NonEmptyString(request.form.markdown)

OneUpdateThenRedirect ==
    /\ calls = <<UpdateCall(request.form.initialSlug, request.form.title,
                            request.form.slug, request.form.markdown)>>
    /\ response = Redirect("/posts/admin")

\* C2 as claimed: an update submission with title, slug and markdown all
\* present makes exactly one updatePost call keyed by the submitted
\* initialSlug and then redirects to /posts/admin, whatever the value or
\* presence of initialSlug.
C2_AsClaimed == (UpdateSubmission /\ AllThreePresent) => OneUpdateThenRedirect

\* C2: an update submission with title, slug and markdown all non-empty
\* strings makes exactly one updatePost call keyed by the submitted
\* initialSlug, carrying the submitted title, slug and markdown, and then
\* redirects to /posts/admin, provided initialSlug is a string (the empty
\* string included); with initialSlug absent or not a string the action
\* throws on its type assertion and makes no persistence call.
C2_UpdateWhenInitialSlugIsString ==
    (UpdateSubmission /\ AllThreePresent)
    => IF request.form.initialSlug.type = "string"
       THEN OneUpdateThenRedirect
       ELSE /\ calls = <<>>
            /\ posts = before
            /\ response = Thrown("initial slug must be a string")

\* A rename: the post my-post is updated under the new slug x.
C2_Witness ==
    /\ UpdateSubmission
    /\ AllThreePresent
    /\ request.form.initialSlug = Str("my-post")
    /\ request.form.slug = Str("x")
    /\ HasPost(before, "my-post")
    /\ ~HasPost(posts, "my-post")
    /\ HasPost(posts, "x")
    /\ OneUpdateThenRedirect

\* C3: a delete submission makes exactly one deletePost call keyed by the
\* submitted slug, no updatePost call and no validation, and then redirects
\* to /posts/admin, whatever title, markdown and initialSlug are.
C3_Delete ==
    DeleteSubmission
    => /\ calls = <<DeleteCall(request.form.slug)>>
       /\ response = Redirect("/posts/admin")

\* The scenario {_action: "delete", slug: "my-post"}, the other fields absent.
C3_Witness ==
    /\ DeleteSubmission
    /\ request.form = [EmptyForm EXCEPT !._action = Str("delete"),
                                        !.slug = Str("my-post")]
    /\ HasPost(before, "my-post")
    /\ ~HasPost(posts, "my-post")
    /\ calls = <<DeleteCall(Str("my-post"))>>
    /\ response = Redirect("/posts/admin")

PersistenceOps == {"deletePost", "updatePost"}

\* C4 as claimed: every submission handled by the action makes exactly one
\* persistence call, a deletePost or an updatePost.
C4_AsClaimed ==
    Submitted => (Len(calls) = 1 /\ calls[1].op \in PersistenceOps)

\* C4: every request handled by the action makes at most one persistence
\* call, a deletePost or an updatePost and never both: exactly one when it
\* is a delete submission, or an update submission whose title, slug and
\* markdown are non-empty strings and whose initialSlug is a string; none
\* otherwise (validation failure, failed type assertion, failed session
\* check).
C4_AtMostOneCall ==
    Handled
    => /\ Len(calls) <= 1
       /\ \A i \in 1..Len(calls) : calls[i].op \in PersistenceOps
       /\ (Len(calls) = 1
            <=> \/ DeleteSubmission
                \/ (UpdateSubmission /\ AllThreePresent
                        /\ request.form.initialSlug.type = "string"))
       /\ (DeleteSubmission => calls[1].op = "deletePost")
       /\ (UpdateSubmission /\ Len(calls) = 1 => calls[1].op = "updatePost")

\* A request that made no call (validation failed) has been handled.
C4_Witness ==
    /\ UpdateSubmission
    /\ Missing(request.form.markdown)
    /\ calls = <<>>

\* C5: in $slug.tsx a request without a valid session ends in requireUserId,
\* before the form is read: no deletePost, no updatePost, no validation
\* response, whatever the form holds.
C5_SessionFirst ==
    (Handled /\ request.variant = "authed" /\ ~request.session)
    => /\ calls = <<>>
       /\ posts = before
       /\ response = Thrown("requireUserId")

\* A delete of an existing post, sent without a session, has been refused.
C5_Witness ==
    /\ Handled
    /\ request.variant = "authed"
    /\ ~request.session
    /\ request.form._action = Str("delete")
    /\ request.form.slug = Str("my-post")
    /\ HasPost(posts, "my-post")
    /\ response.kind = "throw"

LoaderAnswered == phase = "responded" /\ request.handler = "loader"

\* C6: for a slug with no matching post the loader raises the not-found
\* failure and returns no post; for a slug with a matching post it returns
\* exactly that post; in every store that deletes and updates can produce.
C6_Loader ==
    \A s \in Slugs :
        (LoaderAnswered /\ request.params.slug = Str(s))
        => IF \E p \in posts : p.slug = s
           THEN \E p \in posts : p.slug = s /\ response = JsonPost(p)
           ELSE /\ response.kind = "throw"
                /\ response.message = "Post not found: " \o s
                /\ response.post = NoPost

\* The loader has failed for a slug whose post the last action removed
\* (deleted, or renamed away).
C6_Witness ==
    /\ LoaderAnswered
    /\ request.params.slug = Str("my-post")
    /\ "my-post" \in removed
    /\ ~HasPost(posts, "my-post")
    /\ response.kind = "throw"

\* C9: for a request with a valid session the two actions agree: on the same
\* form and the same store they make the same persistence calls, return the
\* same response and leave the same store, and that is what the route did.
C9_VariantsAgree ==
    (Handled /\ request.session)
    => LET a == action(request, before)
           b == action0(request, before)
       IN  /\ a = b
           /\ calls = a.calls
           /\ response = a.response
           /\ posts = a.posts

\* part_000 has rejected a form with a valid session, as $slug.tsx would.
C9_Witness ==
    /\ Handled
    /\ request.session
    /\ request.variant = "plain"
    /\ request.form.title = Str("")
    /\ response.kind = "json"
    /\ action(request, before).response = response

---------------------------------------------------------------------------
(* Properties of the view *)

LastStarted == started[Len(started)]

\* C7: in $slug.tsx a click on the delete button while the dialog is not
\* shown submits nothing and opens the dialog, and every delete submission
\* starts in a state in which the dialog is shown.
C7_DialogGatesDelete ==
    [][viewVariant = "authed"
        => /\ (ClickDelete /\ ~showDeleteModal)
                => (started' = started /\ network' = network
                        /\ showDeleteModal')
           /\ (Len(started') > Len(started)
                    /\ started'[Len(started')]._action = Str("delete"))
                => showDeleteModal]_vars

\* The dialog was opened, closed and opened again before the delete was sent:
\* an update went out first, while the dialog was closed.
C7_Witness ==
    /\ viewVariant = "authed"
    /\ Len(started) = 2
    /\ started[1]._action = Null
    /\ ~started[1].modal
    /\ started[2]._action = Str("delete")
    /\ started[2].modal

\* C8: in $slug.tsx confirming the open dialog, with no submission in
\* flight, starts exactly one submission, with _action=delete; while a
\* submission is in flight no step (a further confirm, a click on a button)
\* starts another.
C8_ConfirmSubmitsOnce ==
    [][viewVariant = "authed"
        => /\ (onConfirm /\ ~isSubmitting)
                => /\ Len(started') = Len(started) + 1
                   /\ started'[Len(started')]._action = Str("delete")
                   /\ submission' = Len(started')
                   /\ Cardinality(network') = Cardinality(network) + 1
           /\ isSubmitting => (started' = started /\ network' \subseteq network)
      ]_vars

\* The confirmed delete is in flight, the dialog still open.
C8_Witness ==
    /\ viewVariant = "authed"
    /\ page = "edit"
    /\ showDeleteModal
    /\ isDeleting
    /\ Len(started) = 1
    /\ LastStarted._action = Str("delete")
    /\ Cardinality(network) = 1

UpdateButtonDisabled ==
    IF viewVariant = "authed" THEN updateDisabled ELSE updateDisabled0
DeleteButtonDisabled ==
    IF viewVariant = "authed" THEN deleteDisabled ELSE deleteDisabled0

\* C10: in the view of both variants, while a submission is in flight the
\* update button and the delete button are both disabled.
C10_AsClaimed ==
    (page = "edit" /\ submission # 0)
    => (UpdateButtonDisabled /\ DeleteButtonDisabled)

====
